---------------------------- MODULE Spec2Model ----------------------------
(***************************************************************************)
(* Bit generators PCG32, GJrand, JSF64 and DSFMT: the engine state, the    *)
(* draw operations bound to the four bitgen_t slots, seeding, and the      *)
(* Python-level state getter / setter of each class.                       *)
(*                                                                         *)
(* A uint64_t is a tuple of 8 bytes, least significant first; a uint32_t   *)
(* is a tuple of 4 bytes.  All arithmetic is carried out modulo 2^64       *)
(* (2^32) on these tuples, exactly as C does on the unsigned types.        *)
(***************************************************************************)
EXTENDS Integers, Sequences, FiniteSets, TLC

----------------------------------------------------------------------------
(* uint64_t / uint32_t arithmetic *)

RECURSIVE Pow2(_)
Pow2(n) == IF n = 0 THEN 1 ELSE 2 * Pow2(n - 1)

\* A function constructor is turned into an explicit tuple at once, so that
\* chained word operations never nest unevaluated functions.
Tup(f) == f \o <<>>

Zero64 == <<0, 0, 0, 0, 0, 0, 0, 0>>
One64 == <<1, 0, 0, 0, 0, 0, 0, 0>>
Zero32 == <<0, 0, 0, 0>>

\* The word whose 16-bit limbs, most significant first, are a, b, c, d.
W64(a, b, c, d) ==
    <<d % 256, d \div 256, c % 256, c \div 256,
      b % 256, b \div 256, a % 256, a \div 256>>

\* a + b + c on uint64_t (wraps): byte-wise with the carry
AddCarry(a, b, c) ==
    LET t1 == a[1] + b[1] + c
        t2 == a[2] + b[2] + t1 \div 256
        t3 == a[3] + b[3] + t2 \div 256
        t4 == a[4] + b[4] + t3 \div 256
        t5 == a[5] + b[5] + t4 \div 256
        t6 == a[6] + b[6] + t5 \div 256
        t7 == a[7] + b[7] + t6 \div 256
        t8 == a[8] + b[8] + t7 \div 256
    IN  <<t1 % 256, t2 % 256, t3 % 256, t4 % 256,
          t5 % 256, t6 % 256, t7 % 256, t8 % 256>>

\* a + b on uint64_t (wraps)
Add(a, b) == AddCarry(a, b, 0)

Not(a) == Tup([i \in 1..Len(a) |-> 255 - a[i]])

\* a - b on uint64_t (wraps)
Sub(a, b) == AddCarry(a, Not(b), 1)

RECURSIVE XorBits(_, _, _)
XorBits(x, y, n) ==
    IF n = 0 THEN 0
    ELSE ((x + y) % 2) + 2 * XorBits(x \div 2, y \div 2, n - 1)

RECURSIVE OrBits(_, _, _)
OrBits(x, y, n) ==
    IF n = 0 THEN 0
    ELSE (IF (x % 2) + (y % 2) > 0 THEN 1 ELSE 0)
         + 2 * OrBits(x \div 2, y \div 2, n - 1)

Xor(a, b) == Tup([i \in 1..Len(a) |-> XorBits(a[i], b[i], 8)])
Or(a, b) == Tup([i \in 1..Len(a) |-> OrBits(a[i], b[i], 8)])

ByteAt(a, i) == IF i >= 1 /\ i <= Len(a) THEN a[i] ELSE 0

\* a << n, 0 <= n < width
ShiftL(a, n) ==
    LET q == n \div 8
        b == n % 8
    IN  Tup([i \in 1..Len(a) |->
                ((ByteAt(a, i - q) * Pow2(b)) % 256)
                + (ByteAt(a, i - q - 1) \div Pow2(8 - b))])

\* a >> n, 0 <= n < width
ShiftR(a, n) ==
    LET q == n \div 8
        b == n % 8
    IN  Tup([i \in 1..Len(a) |->
                (ByteAt(a, i + q) \div Pow2(b))
                + ((ByteAt(a, i + q + 1) * Pow2(8 - b)) % 256)])

RECURSIVE DotFrom(_, _, _, _)
DotFrom(a, b, k, i) ==
    IF i > k THEN 0
    ELSE ByteAt(a, i) * ByteAt(b, k + 1 - i) + DotFrom(a, b, k, i + 1)

RECURSIVE MulFrom(_, _, _, _, _)
MulFrom(a, b, n, k, c) ==
    IF k > n THEN <<>>
    ELSE LET t == c + DotFrom(a, b, k, 1)
         IN  <<t % 256>> \o MulFrom(a, b, n, k + 1, t \div 256)

\* the low n bytes of a * b
Mul(a, b, n) == MulFrom(a, b, n, 1, 0)

\* a * b on uint64_t (wraps)
Mul64(a, b) ==
    LET c1 == a[1] * b[1]
        c2 == c1 \div 256 + a[1] * b[2] + a[2] * b[1]
        c3 == c2 \div 256 + a[1] * b[3] + a[2] * b[2] + a[3] * b[1]
        c4 == c3 \div 256 + a[1] * b[4] + a[2] * b[3] + a[3] * b[2] + a[4] * b[1]
        c5 == c4 \div 256 + a[1] * b[5] + a[2] * b[4] + a[3] * b[3] + a[4] * b[2] + a[5] * b[1]
        c6 == c5 \div 256 + a[1] * b[6] + a[2] * b[5] + a[3] * b[4] + a[4] * b[3] + a[5] * b[2] + a[6] * b[1]
        c7 == c6 \div 256 + a[1] * b[7] + a[2] * b[6] + a[3] * b[5] + a[4] * b[4] + a[5] * b[3] + a[6] * b[2] + a[7] * b[1]
        c8 == c7 \div 256 + a[1] * b[8] + a[2] * b[7] + a[3] * b[6] + a[4] * b[5] + a[5] * b[4] + a[6] * b[3] + a[7] * b[2] + a[8] * b[1]
    IN  <<c1 % 256, c2 % 256, c3 % 256, c4 % 256, c5 % 256, c6 % 256, c7 % 256, c8 % 256>>

IsZero(a) == \A i \in 1..Len(a) : a[i] = 0

\* the low n bytes of a, zero-extended when a is shorter
Low(a, n) == Tup([i \in 1..n |-> ByteAt(a, i)])

Lo32(w) == SubSeq(w, 1, 4)
Hi32(w) == SubSeq(w, 5, 8)

\* (value << rot) | (value >> ((-rot) & 63))
rotl(value, rot) == Or(ShiftL(value, rot), ShiftR(value, (64 - rot) % 64))

----------------------------------------------------------------------------
(* GJrand: src/gjrand/gjrand.h *)

\* a faulty increment, 0x55aa96a4; CounterWord distinguishes it from GJ_INC
GJ_INC_even == W64(0, 0, 21930, 38564)

GJ_INC == W64(0, 0, 21930, 38565)        \* 0x55aa96a5

\* a faulty variant that shifts s[0] where the code rotates it, which loses
\* its upper half; TransitionInvertible distinguishes it from gjrand_next
gjrand_next_lossy(s) ==
    LET s1a == Add(s[2], s[3])
        s0a == ShiftL(s[1], 32)
        s2a == Xor(s[3], s1a)
        s3a == Add(s[4], GJ_INC)
        s0b == Add(s0a, s1a)
        s2b == rotl(s2a, 23)
        s1b == Xor(s1a, s0b)
        s0c == Add(s0b, s2b)
        s1c == rotl(s1b, 19)
        s2c == Add(s2b, s0c)
        s1d == Add(s1c, s3a)
    IN  [s |-> <<s0c, s1d, s2c, s3a>>, ret |-> s0c]

gjrand_next(s) ==
    LET s1a == Add(s[2], s[3])                \* s[1] += s[2]
        s0a == rotl(s[1], 32)                 \* s[0] = rotl(s[0], 32)
        s2a == Xor(s[3], s1a)                 \* s[2] ^= s[1]
        s3a == Add(s[4], GJ_INC)              \* s[3] += 0x55aa96a5
        s0b == Add(s0a, s1a)                  \* s[0] += s[1]
        s2b == rotl(s2a, 23)                  \* s[2] = rotl(s[2], 23)
        s1b == Xor(s1a, s0b)                  \* s[1] ^= s[0]
        s0c == Add(s0b, s2b)                  \* s[0] += s[2]
        s1c == rotl(s1b, 19)                  \* s[1] = rotl(s[1], 19)
        s2c == Add(s2b, s0c)                  \* s[2] += s[0]
        s1d == Add(s1c, s3a)                  \* s[1] += s[3]
    IN  [s |-> <<s0c, s1d, s2c, s3a>>, ret |-> s0c]

----------------------------------------------------------------------------
(* JSF64: src/jsf64/jsf64.h *)

jsf64_next(s) ==
    LET e  == Sub(s[1], rotl(s[2], 7))
        n0 == Xor(s[2], rotl(s[3], 13))
        n1 == Add(s[3], rotl(s[4], 37))
        n2 == Add(s[4], e)
        n3 == Add(e, n0)
    IN  [s |-> <<n0, n1, n2, n3>>, ret |-> n3]


----------------------------------------------------------------------------
(* Python objects that appear in a state dictionary.                        *)
(*   int      [ty |-> "int", neg, mag]  sign and magnitude (bytes, LSB     *)
(*            first, any length)                                           *)
(*   str      [ty |-> "str", s]                                            *)
(*   dict     [ty |-> "dict", d]        d maps the keys present            *)
(*   ndarray  [ty |-> "ndarray", data]  a sequence of elements             *)
(* A Python expression evaluates to [exc, v]: exc = "" and the value, or   *)
(* the name of the exception raised.                                       *)

PyInt(neg, mag) == [ty |-> "int", neg |-> neg, mag |-> mag]
PyStr(s) == [ty |-> "str", s |-> s]
PyDict(d) == [ty |-> "dict", d |-> d]
PyArray(data) == [ty |-> "ndarray", data |-> data]

Ok(v) == [exc |-> "", v |-> v]
Raise(e) == [exc |-> e, v |-> <<>>]

\* the C int n (|n| < 2^31) as a Python int
RECURSIVE NatBytes(_, _)
NatBytes(n, k) == IF k = 0 THEN <<>> ELSE <<n % 256>> \o NatBytes(n \div 256, k - 1)
PyFromInt(n) == PyInt(n < 0, NatBytes(IF n < 0 THEN -n ELSE n, 8))
PyFromU64(w) == PyInt(FALSE, w)
PyFromU32(u) == PyInt(FALSE, u \o Zero32)

\* obj[key] for a string key
Item(obj, key) ==
    IF obj.ty # "dict" THEN Raise("TypeError")
    ELSE IF key \notin DOMAIN obj.d THEN Raise("KeyError")
    ELSE Ok(obj.d[key])

\* obj[k1][k2]
Item2(obj, k1, k2) ==
    LET a == Item(obj, k1) IN IF a.exc # "" THEN a ELSE Item(a.v, k2)

\* a faulty variant that never looks at the tag; TagCheckedFirst
\* distinguishes it from TagDiffers
TagDiffers_never(value, name) == FALSE

\* value.get('bit_generator', '') != name
TagDiffers(value, name) ==
    IF "bit_generator" \notin DOMAIN value.d THEN name # ""
    ELSE LET b == value.d["bit_generator"]
         IN  IF b.ty = "str" THEN b.s # name ELSE TRUE

\* conversion of a Python object to uint64_t
AsUint64(x) ==
    IF x.ty # "int" THEN Raise("TypeError")
    ELSE IF x.neg /\ ~IsZero(x.mag) THEN Raise("OverflowError")
    ELSE IF \E i \in 9..Len(x.mag) : x.mag[i] # 0 THEN Raise("OverflowError")
    ELSE Ok(Low(x.mag, 8))

\* conversion of a Python object to uint32_t
AsUint32(x) ==
    IF x.ty # "int" THEN Raise("TypeError")
    ELSE IF x.neg /\ ~IsZero(x.mag) THEN Raise("OverflowError")
    ELSE IF \E i \in 5..Len(x.mag) : x.mag[i] # 0 THEN Raise("OverflowError")
    ELSE Ok(Low(x.mag, 4))

\* conversion of a Python object to a C int (32 bits, two's complement)
AsInt(x) ==
    IF x.ty # "int" THEN Raise("TypeError")
    ELSE LET m == x.mag
             small == /\ \A i \in 5..Len(m) : m[i] = 0
                      /\ ByteAt(m, 4) < 128
             n == ByteAt(m, 1) + 256 * ByteAt(m, 2) + 65536 * ByteAt(m, 3)
                  + 16777216 * ByteAt(m, 4)
         IN  IF ~small THEN Raise("OverflowError")   \* -2^31 itself is left out
             ELSE Ok(IF x.neg THEN -n ELSE n)

----------------------------------------------------------------------------
(* Entropy: self._seed_seq.generate_state(n, dtype).  The seed sequence is *)
(* an external collaborator; seed number e stands for one entropy source   *)
(* and yields n fixed 64-bit words.  Word 2 of seed 0 is odd, of seed 1    *)
(* even.                                                                   *)

generate_state(e, n) == Tup([k \in 1..n |-> W64(k, e, e * k + 7, e + k - 1)])

uint64_to_double(rnd) == ShiftR(rnd, 11)     \* the numerator of rnd>>11 / 2^53

----------------------------------------------------------------------------
(* GJrand: src/gjrand/gjrand.c, gjrand.h and bitgenerators/gjrand.pyx.      *)
(* A gjrand_state is [s, has_uint32, uinteger].  A C function returns      *)
(* [st, ret]: the state it leaves and the value it returns.                *)

\* for (i = 0; i < n; i++) (void)gjrand_next(state->s), on r = [s, i]
RECURSIVE gjrand_warm(_, _)
gjrand_warm(r, n) ==
    IF r.i >= n THEN r.s ELSE gjrand_warm([s |-> gjrand_next(r.s).s, i |-> r.i + 1], n)

\* a faulty variant with one warm-up transition too few; SeedingWarmUp
\* distinguishes it from gjrand_set_seed
gjrand_set_seed_short(state, seed) ==
    [state EXCEPT !.s = gjrand_warm([s |-> <<seed[1], seed[2], W64(0, 0, 30, 33921), Zero64>>,
                                   i |-> 0], 13)]

gjrand_set_seed(state, seed) ==
    [state EXCEPT !.s = gjrand_warm([s |-> <<seed[1], seed[2], W64(0, 0, 30, 33921), Zero64>>,
                                   i |-> 0], 14)]

gjrand_get_state(state) ==
    [state_arr |-> state.s, has_uint32 |-> state.has_uint32, uinteger |-> state.uinteger]

\* a faulty variant that forgets the cached half-word; RoundTripIdentity
\* distinguishes it from gjrand_set_state
gjrand_set_state_without_cache(state, state_arr, has_uint32, uinteger) ==
    [s |-> Tup([i \in 1..4 |-> state_arr[i]]), has_uint32 |-> 0, uinteger |-> Zero32]

gjrand_set_state(state, state_arr, has_uint32, uinteger) ==
    [s |-> Tup([i \in 1..4 |-> state_arr[i]]), has_uint32 |-> has_uint32, uinteger |-> uinteger]

\* a faulty variant that drops the cached half; WideDrawsKeepCache
\* distinguishes it from gjrand_next64
gjrand_next64_clears_cache(state) ==
    LET n == gjrand_next(state.s)
    IN  [st |-> [s |-> n.s, has_uint32 |-> 0, uinteger |-> Zero32], ret |-> n.ret]

gjrand_next64(state) ==
    LET n == gjrand_next(state.s) IN [st |-> [state EXCEPT !.s = n.s], ret |-> n.ret]

\* a faulty variant that returns the high half first and caches the low
\* half; SplitLowThenHigh distinguishes it from gjrand_next32
gjrand_next32_high_first(state) ==
    IF state.has_uint32 # 0
    THEN [st |-> [state EXCEPT !.has_uint32 = 0], ret |-> state.uinteger]
    ELSE LET n == gjrand_next(state.s)
         IN  [st |-> [s |-> n.s, has_uint32 |-> 1, uinteger |-> Lo32(n.ret)],
              ret |-> Hi32(n.ret)]

gjrand_next32(state) ==
    IF state.has_uint32 # 0
    THEN [st |-> [state EXCEPT !.has_uint32 = 0], ret |-> state.uinteger]
    ELSE LET n == gjrand_next(state.s)
         IN  [st |-> [s |-> n.s, has_uint32 |-> 1, uinteger |-> Hi32(n.ret)],
              ret |-> Lo32(n.ret)]

gjrand_uint64(st) == gjrand_next64(st)
gjrand_uint32(st) == gjrand_next32(st)
gjrand_double(st) ==
    LET r == gjrand_next64(st) IN [st |-> r.st, ret |-> uint64_to_double(r.ret)]

GJrand_reset_state_variables(state) ==
    [state EXCEPT !.has_uint32 = 0, !.uinteger = Zero32]

\* the object's memory is zero-filled when __init__ starts
GJrand_init(e) ==
    [cls |-> "GJrand",
     bitgen |-> [next_uint64 |-> "gjrand_uint64", next_uint32 |-> "gjrand_uint32",
                 next_double |-> "gjrand_double", next_raw |-> "gjrand_uint64"],
     rng_state |-> GJrand_reset_state_variables(
                       gjrand_set_seed([s |-> <<Zero64, Zero64, Zero64, Zero64>>,
                                        has_uint32 |-> 0, uinteger |-> Zero32],
                                       generate_state(e, 2)))]

GJrand_state_get(self) ==
    LET c == gjrand_get_state(self.rng_state)
    IN  PyDict([bit_generator |-> PyStr(self.cls),
                state |-> PyDict([state |-> PyArray(c.state_arr)]),
                has_uint32 |-> PyFromInt(c.has_uint32),
                uinteger |-> PyFromU32(c.uinteger)])

\* state_vec[:] = x for a uint64 vector of 4: numpy copies 4 elements,
\* broadcasts one element or a scalar, and refuses any other shape
AssignVec4(x) ==
    IF x.ty = "ndarray"
    THEN IF Len(x.data) = 4 THEN Ok(x.data)
         ELSE IF Len(x.data) = 1 THEN Ok(Tup([i \in 1..4 |-> x.data[1]]))
         ELSE Raise("ValueError")
    ELSE IF x.ty = "int"
    THEN LET w == AsUint64(x) IN IF w.exc # "" THEN w ELSE Ok(Tup([i \in 1..4 |-> w.v]))
    ELSE IF x.ty = "str" THEN Raise("ValueError")
    ELSE Raise("TypeError")

\* the setter returns [self, exc]: the object as the call leaves it and the
\* exception raised ("" for none)
GJrand_state_set(self, value) ==
    IF value.ty # "dict" THEN [self |-> self, exc |-> "TypeError"]
    ELSE IF TagDiffers(value, self.cls) THEN [self |-> self, exc |-> "ValueError"]
    ELSE LET x == Item2(value, "state", "state")
             state_vec == IF x.exc # "" THEN x ELSE AssignVec4(x.v)
             h == Item(value, "has_uint32")
             has_uint32 == IF h.exc # "" THEN h ELSE AsInt(h.v)
             u == Item(value, "uinteger")
             uinteger == IF u.exc # "" THEN u ELSE AsUint32(u.v)
         IN  IF state_vec.exc # "" THEN [self |-> self, exc |-> state_vec.exc]
             ELSE IF has_uint32.exc # "" THEN [self |-> self, exc |-> has_uint32.exc]
             ELSE IF uinteger.exc # "" THEN [self |-> self, exc |-> uinteger.exc]
             ELSE [self |-> [self EXCEPT !.rng_state =
                                gjrand_set_state(self.rng_state, state_vec.v,
                                                 has_uint32.v, uinteger.v)],
                   exc |-> ""]

----------------------------------------------------------------------------
(* JSF64: src/jsf64/jsf64.c, jsf64.h and bitgenerators/gjrand.pyx (second   *)
(* half).                                                                  *)

\* for (i = 0; i < n; i++) (void)jsf64_next(state->s), on r = [s, i]
RECURSIVE jsf64_warm(_, _)
jsf64_warm(r, n) ==
    IF r.i >= n THEN r.s ELSE jsf64_warm([s |-> jsf64_next(r.s).s, i |-> r.i + 1], n)

jsf64_set_seed(state, seed) ==
    [state EXCEPT !.s = jsf64_warm([s |-> <<W64(0, 0, 61930, 24301), seed[1], seed[2], seed[3]>>,
                                  i |-> 0], 20)]

jsf64_get_state(state) ==
    [state_arr |-> state.s, has_uint32 |-> state.has_uint32, uinteger |-> state.uinteger]

jsf64_set_state(state, state_arr, has_uint32, uinteger) ==
    [s |-> Tup([i \in 1..4 |-> state_arr[i]]), has_uint32 |-> has_uint32, uinteger |-> uinteger]

jsf64_next64(state) ==
    LET n == jsf64_next(state.s) IN [st |-> [state EXCEPT !.s = n.s], ret |-> n.ret]

\* a faulty variant that never serves the cached half; SplitterStep
\* distinguishes it from jsf64_next32
jsf64_next32_uncached(state) ==
    LET n == jsf64_next(state.s)
    IN  [st |-> [s |-> n.s, has_uint32 |-> 1, uinteger |-> Hi32(n.ret)],
         ret |-> Lo32(n.ret)]

jsf64_next32(state) ==
    IF state.has_uint32 # 0
    THEN [st |-> [state EXCEPT !.has_uint32 = 0], ret |-> state.uinteger]
    ELSE LET n == jsf64_next(state.s)
         IN  [st |-> [s |-> n.s, has_uint32 |-> 1, uinteger |-> Hi32(n.ret)],
              ret |-> Lo32(n.ret)]

jsf64_uint64(st) == jsf64_next64(st)
jsf64_uint32(st) == jsf64_next32(st)
jsf64_double(st) ==
    LET r == jsf64_next64(st) IN [st |-> r.st, ret |-> uint64_to_double(r.ret)]

JSF64_reset_state_variables(state) ==
    [state EXCEPT !.has_uint32 = 0, !.uinteger = Zero32]

JSF64_init(e) ==
    [cls |-> "JSF64",
     bitgen |-> [next_uint64 |-> "jsf64_uint64", next_uint32 |-> "jsf64_uint32",
                 next_double |-> "jsf64_double", next_raw |-> "jsf64_uint64"],
     rng_state |-> JSF64_reset_state_variables(
                       jsf64_set_seed([s |-> <<Zero64, Zero64, Zero64, Zero64>>,
                                       has_uint32 |-> 0, uinteger |-> Zero32],
                                      generate_state(e, 3)))]

JSF64_state_get(self) ==
    LET c == jsf64_get_state(self.rng_state)
    IN  PyDict([bit_generator |-> PyStr(self.cls),
                state |-> PyDict([state |-> PyArray(c.state_arr)]),
                has_uint32 |-> PyFromInt(c.has_uint32),
                uinteger |-> PyFromU32(c.uinteger)])

JSF64_state_set(self, value) ==
    IF value.ty # "dict" THEN [self |-> self, exc |-> "TypeError"]
    ELSE IF TagDiffers(value, self.cls) THEN [self |-> self, exc |-> "ValueError"]
    ELSE LET x == Item2(value, "state", "state")
             state_vec == IF x.exc # "" THEN x ELSE AssignVec4(x.v)
             h == Item(value, "has_uint32")
             has_uint32 == IF h.exc # "" THEN h ELSE AsInt(h.v)
             u == Item(value, "uinteger")
             uinteger == IF u.exc # "" THEN u ELSE AsUint32(u.v)
         IN  IF state_vec.exc # "" THEN [self |-> self, exc |-> state_vec.exc]
             ELSE IF has_uint32.exc # "" THEN [self |-> self, exc |-> has_uint32.exc]
             ELSE IF uinteger.exc # "" THEN [self |-> self, exc |-> uinteger.exc]
             ELSE [self |-> [self EXCEPT !.rng_state =
                                jsf64_set_state(self.rng_state, state_vec.v,
                                                has_uint32.v, uinteger.v)],
                   exc |-> ""]

----------------------------------------------------------------------------
(* PCG32: bitgenerators/pcg32.pyx.  The C functions of src/pcg32/pcg32.h    *)
(* are modelled from the specification of the engine (section 4.2): the    *)
(* LCG step, the output permutation, seeding and the O(log n) advance.     *)
(* A pcg32_random_t is [state, inc].                                       *)

PCG_DEFAULT_MULTIPLIER_64 == W64(22609, 62509, 19605, 32557)  \* 0x5851f42d4c957f2d

\* state' = a * state + inc
pcg_step(rng) ==
    [rng EXCEPT !.state = Add(Mul64(rng.state, PCG_DEFAULT_MULTIPLIER_64), rng.inc)]

\* xorshift, then a rotate right by the top five bits of the old state
pcg_output(old) ==
    LET xorshifted == Lo32(ShiftR(Xor(ShiftR(old, 18), old), 27))
        rot == old[8] \div 8
    IN  Or(ShiftR(xorshifted, rot), ShiftL(xorshifted, (32 - rot) % 32))

pcg32_set_seed(rng, seed, inc) ==
    pcg_step([state |-> seed, inc |-> Or(inc, One64)])

pcg32_next32(rng) == [st |-> pcg_step(rng), ret |-> pcg_output(rng.state)]

pcg32_next64(rng) ==
    LET a == pcg32_next32(rng)
        b == pcg32_next32(a.st)
    IN  [st |-> b.st, ret |-> b.ret \o a.ret]

pcg32_next_double(rng) ==
    LET a == pcg32_next32(rng)
        b == pcg32_next32(a.st)
    IN  [st |-> b.st,
         ret |-> Or(ShiftL(ShiftR(a.ret, 5) \o Zero32, 26), ShiftR(b.ret, 6) \o Zero32)]

\* one iteration of the loop of pcg_advance_lcg_64 on its variables
pcg_advance_iter(r) ==
    LET odd == r.delta[1] % 2 = 1
    IN  [delta |-> ShiftR(r.delta, 1),
         cur_mult |-> Mul64(r.cur_mult, r.cur_mult),
         cur_plus |-> Mul64(Add(r.cur_mult, One64), r.cur_plus),
         acc_mult |-> IF odd THEN Mul64(r.acc_mult, r.cur_mult) ELSE r.acc_mult,
         acc_plus |-> IF odd THEN Add(Mul64(r.acc_plus, r.cur_mult), r.cur_plus)
                      ELSE r.acc_plus]

\* while (delta > 0) { ... delta /= 2; }
RECURSIVE pcg_advance_loop(_)
pcg_advance_loop(r) ==
    IF IsZero(r.delta) THEN r ELSE pcg_advance_loop(pcg_advance_iter(r))

pcg_advance_lcg(state, delta, cur_mult, cur_plus) ==
    LET r == pcg_advance_loop([delta |-> delta, cur_mult |-> cur_mult,
                               cur_plus |-> cur_plus, acc_mult |-> One64,
                               acc_plus |-> Zero64])
    IN  Add(Mul64(r.acc_mult, state), r.acc_plus)

pcg32_advance_state(rng, step) ==
    [rng EXCEPT !.state = pcg_advance_lcg(rng.state, step, PCG_DEFAULT_MULTIPLIER_64,
                                          rng.inc)]

\* val & ~(~0 << 64) on a Python int
wrap_int(val) ==
    IF val.neg THEN Sub(Zero64, Low(val.mag, 8)) ELSE Low(val.mag, 8)

\* a faulty variant that forwards to the 32-bit function; DrawWidths
\* distinguishes it from pcg32_uint64
pcg32_uint64_narrow(st) ==
    LET r == pcg32_next32(st) IN [st |-> r.st, ret |-> r.ret \o Zero32]

pcg32_uint64(st) == pcg32_next64(st)
pcg32_uint32(st) == pcg32_next32(st)
pcg32_double(st) == pcg32_next_double(st)
\* a faulty variant that forwards to the 64-bit function; SlotsForwarded
\* distinguishes it from pcg32_raw
pcg32_raw_wide(st) == pcg32_next64(st)

pcg32_raw(st) == LET r == pcg32_next32(st) IN [st |-> r.st, ret |-> r.ret \o Zero32]

PCG32_init(e) ==
    LET val == generate_state(e, 2)
    IN  [cls |-> "PCG32",
         bitgen |-> [next_uint64 |-> "pcg32_uint64", next_uint32 |-> "pcg32_uint32",
                     next_double |-> "pcg32_double", next_raw |-> "pcg32_raw"],
         rng_state |-> pcg32_set_seed([state |-> Zero64, inc |-> Zero64], val[1], val[2])]

PCG32_state_get(self) ==
    PyDict([bit_generator |-> PyStr(self.cls),
            state |-> PyDict([state |-> PyFromU64(self.rng_state.state),
                              inc |-> PyFromU64(self.rng_state.inc)])])

\* each field is written as soon as its value has been fetched and converted
PCG32_state_set(self, value) ==
    IF value.ty # "dict" THEN [self |-> self, exc |-> "TypeError"]
    ELSE IF TagDiffers(value, self.cls) THEN [self |-> self, exc |-> "ValueError"]
    ELSE LET x == Item2(value, "state", "state")
             state == IF x.exc # "" THEN x ELSE AsUint64(x.v)
             y == Item2(value, "state", "inc")
             inc == IF y.exc # "" THEN y ELSE AsUint64(y.v)
         IN  IF state.exc # "" THEN [self |-> self, exc |-> state.exc]
             ELSE IF inc.exc # ""
             THEN [self |-> [self EXCEPT !.rng_state.state = state.v], exc |-> inc.exc]
             ELSE [self |-> [self EXCEPT !.rng_state.state = state.v,
                                         !.rng_state.inc = inc.v],
                   exc |-> ""]

\* a faulty variant that hands the magnitude of delta to the C function
\* without wrap_int; AdvanceIsIteratedStep distinguishes it from PCG32_advance
PCG32_advance_unwrapped(self, delta) ==
    [self EXCEPT !.rng_state = pcg32_advance_state(self.rng_state, Low(delta.mag, 8))]

\* a faulty variant that treats a negative delta as 0; AdvanceUndone
\* distinguishes it from PCG32_advance
PCG32_advance_clamped(self, delta) ==
    [self EXCEPT !.rng_state =
        pcg32_advance_state(self.rng_state,
                            IF delta.neg THEN Zero64 ELSE wrap_int(delta))]

\* a faulty variant that takes one step more than asked; AdvanceAdditive
\* distinguishes it from PCG32_advance
PCG32_advance_one_more(self, delta) ==
    [self EXCEPT !.rng_state =
        pcg32_advance_state(self.rng_state, Add(wrap_int(delta), One64))]

PCG32_advance(self, delta) ==
    [self EXCEPT !.rng_state = pcg32_advance_state(self.rng_state, wrap_int(delta))]

\* a faulty variant that advances by int(jumps) itself; JumpIsFixedStepAdvance
\* distinguishes it from PCG32_jump_inplace
PCG32_jump_inplace_unit(self, jumps) == PCG32_advance(self, jumps)

\* step * int(jumps) is an exact product of Python ints
PCG32_jump_inplace(self, jumps) ==
    LET step == W64(40503, 31161, 32586, 31766)      \* 0x9e3779b97f4a7c16
    IN  PCG32_advance(self, PyInt(jumps.neg, Mul(step, jumps.mag, 16)))

\* a faulty variant that jumps the freshly seeded object without copying the
\* state of self into it; Determinism distinguishes it from PCG32_jumped
PCG32_jumped_from_entropy(self, jumps, e) ==
    PCG32_jump_inplace(PCG32_init(e), jumps)

\* self.__class__() draws fresh entropy e
PCG32_jumped(self, jumps, e) ==
    LET bit_generator == PCG32_state_set(PCG32_init(e), PCG32_state_get(self)).self
    IN  PCG32_jump_inplace(bit_generator, jumps)

----------------------------------------------------------------------------
(* DSFMT: bitgenerators/dsfmt.pyx.  The C functions of src/dsfmt/dSFMT.h    *)
(* are modelled from the specification of the engine (sections 3 and 4.5): *)
(* a block recurrence that regenerates the cache in one pass, array        *)
(* seeding, and a jump that maps the status array to a distant one.  The   *)
(* 64-bit lanes of status[] (two per block) and the cached doubles are     *)
(* carried as naturals below 2^16; the Python code only copies them.       *)
(* A dsfmt_state is [status, idx, buffered_uniforms, buffer_loc]; its      *)
(* has_uint32 / uinteger members are never read or written.                *)

DSFMT_N == 191
DSFMT_N_PLUS_1 == DSFMT_N + 1
DSFMT_N64 == DSFMT_N * 2

Lane(x) == x % 65536

\* lane j (0 or 1) of block i (0-based) of a status array
LaneOf(status, i, j) == status[2 * i + j + 1]

\* one pass of the recurrence: every block is recombined with the block
\* 117 positions ahead and with the last block (the "lung")
dsfmt_recur(status) ==
    Tup([k \in 1..(2 * DSFMT_N_PLUS_1) |->
        LET i == (k - 1) \div 2
            j == (k - 1) % 2
            lung == LaneOf(status, DSFMT_N, 1 - j)
        IN  IF i < DSFMT_N
            THEN Lane(LaneOf(status, i, j) * 8 + lung \div 4 + lung * 16
                      + LaneOf(status, (i + 117) % DSFMT_N, j) + 1)
            ELSE Lane(lung * 5 + LaneOf(status, 0, j) * 2
                      + LaneOf(status, DSFMT_N - 1, j) + 3)])

dsfmt_init_by_array(dsfmt, init_key) ==
    [status |-> Tup([k \in 1..(2 * DSFMT_N_PLUS_1) |->
                    LET w == init_key[((2 * k) % Len(init_key)) + 1]
                    IN  Lane((w[1] + 256 * w[2]) * 31 + w[3] * 7 + k * 17 + 19937)]),
     idx |-> DSFMT_N64]

\* dsfmt_fill_array_close1_open2(state->state, state->buffered_uniforms, N64)
dsfmt_refill(state) ==
    LET st == dsfmt_recur(state.status)
    IN  [state EXCEPT !.status = st,
                      !.buffered_uniforms = SubSeq(st, 1, DSFMT_N64),
                      !.buffer_loc = 0]

\* The next cached double.  A cursor below the cache start reads outside the
\* buffer: the value read is whatever lies there (oob).
dsfmt_next_buffer(state, oob) ==
    IF state.buffer_loc < DSFMT_N64
    THEN [st |-> [state EXCEPT !.buffer_loc = state.buffer_loc + 1],
          ret |-> IF state.buffer_loc >= 0
                  THEN state.buffered_uniforms[state.buffer_loc + 1] ELSE oob]
    ELSE LET f == dsfmt_refill(state)
         IN  [st |-> [f EXCEPT !.buffer_loc = 1], ret |-> f.buffered_uniforms[1]]

dsfmt_next_double(state, oob) ==
    LET d == dsfmt_next_buffer(state, oob)
    IN  [st |-> d.st, ret |-> NatBytes(d.ret, 8)]

dsfmt_next32(state, oob) ==
    LET d == dsfmt_next_buffer(state, oob)
    IN  [st |-> d.st, ret |-> NatBytes(d.ret, 4)]

dsfmt_next64(state, oob) ==
    LET a == dsfmt_next_buffer(state, oob)
        b == dsfmt_next_buffer(a.st, oob)
    IN  [st |-> b.st, ret |-> NatBytes(b.ret, 4) \o NatBytes(a.ret, 4)]

dsfmt_next_raw(state, oob) ==
    LET d == dsfmt_next_buffer(state, oob)
    IN  [st |-> d.st, ret |-> NatBytes(d.ret, 8)]

dsfmt_jump(state) ==
    [state EXCEPT !.status =
        Tup([k \in 1..(2 * DSFMT_N_PLUS_1) |->
            Lane(state.status[k] * 3
                 + state.status[((k + 127) % (2 * DSFMT_N_PLUS_1)) + 1] + 128)])]

dsfmt_uint64(st, oob) == dsfmt_next64(st, oob)
dsfmt_uint32(st, oob) == dsfmt_next32(st, oob)
dsfmt_double(st, oob) == dsfmt_next_double(st, oob)
dsfmt_raw(st, oob) == dsfmt_next_raw(st, oob)

\* a faulty variant that marks the cache as unread instead of used up;
\* RefillAtCacheEnd distinguishes it from DSFMT_reset_state_variables
DSFMT_reset_state_variables_to_start(state) == [state EXCEPT !.buffer_loc = 0]

DSFMT_reset_state_variables(state) == [state EXCEPT !.buffer_loc = DSFMT_N64]

\* status is malloc'ed and then filled by dsfmt_init_by_array; the cache is
\* calloc'ed
DSFMT_init(e) ==
    LET val == generate_state(e, DSFMT_N * 4)
        d == dsfmt_init_by_array(<<>>, val)
    IN  [cls |-> "DSFMT",
         bitgen |-> [next_uint64 |-> "dsfmt_uint64", next_uint32 |-> "dsfmt_uint32",
                     next_double |-> "dsfmt_double", next_raw |-> "dsfmt_raw"],
         rng_state |-> DSFMT_reset_state_variables(
                           [status |-> d.status, idx |-> d.idx,
                            buffered_uniforms |-> Tup([i \in 1..DSFMT_N64 |-> 0]),
                            buffer_loc |-> DSFMT_N64])]

\* for i in range(iter): dsfmt_jump(&self.rng_state), on r = [state, i]
RECURSIVE DSFMT_jump_loop(_, _)
DSFMT_jump_loop(r, iter) ==
    IF r.i >= iter THEN r.state
    ELSE DSFMT_jump_loop([state |-> dsfmt_jump(r.state), i |-> r.i + 1], iter)

\* a faulty variant that leaves the cursor where it was; JumpedClearsCache
\* distinguishes it from DSFMT_jump_inplace
DSFMT_jump_inplace_keeps_cache(self, iter) ==
    [self EXCEPT !.rng_state = DSFMT_jump_loop([state |-> self.rng_state, i |-> 0], iter)]

DSFMT_jump_inplace(self, iter) ==
    [self EXCEPT !.rng_state =
        DSFMT_reset_state_variables(
            DSFMT_jump_loop([state |-> self.rng_state, i |-> 0], iter))]

DSFMT_state_get(self) ==
    PyDict([bit_generator |-> PyStr(self.cls),
            state |-> PyDict([state |-> PyArray(Tup([loc \in 1..(2 * DSFMT_N_PLUS_1) |->
                                                    self.rng_state.status[loc]])),
                              idx |-> PyFromInt(self.rng_state.idx)]),
            buffer_loc |-> PyFromInt(self.rng_state.buffer_loc),
            buffered_uniforms |-> PyArray(Tup([i \in 1..DSFMT_N64 |->
                                              self.rng_state.buffered_uniforms[i]]))])

MinOf(S) == CHOOSE x \in S : \A y \in S : x <= y

\* for i in range(n): dst[i] = src[i].  Each element is fetched, converted
\* and stored in turn, so the elements before the first failure are written.
\* An element of an unsigned array that is a negative int does not convert.
CopyItems(dst, src, n, unsigned) ==
    IF src.ty # "ndarray"
    THEN [arr |-> dst, exc |-> IF src.ty = "dict" THEN "KeyError" ELSE "TypeError"]
    ELSE LET bad == {i \in 1..n : \/ i > Len(src.data)
                                  \/ (unsigned /\ src.data[i] < 0)}
             k == IF bad = {} THEN n + 1 ELSE MinOf(bad)
         IN  [arr |-> Tup([i \in 1..n |-> IF i < k THEN src.data[i] ELSE dst[i]]),
              exc |-> IF bad = {} THEN ""
                      ELSE IF k > Len(src.data) THEN "IndexError"
                      ELSE "OverflowError"]

DSFMT_state_set(self, value) ==
    IF value.ty # "dict" THEN [self |-> self, exc |-> "TypeError"]
    ELSE IF TagDiffers(value, self.cls) THEN [self |-> self, exc |-> "ValueError"]
    ELSE LET state == Item2(value, "state", "state")
             s1 == CopyItems(self.rng_state.status, state.v, 2 * DSFMT_N_PLUS_1, TRUE)
             self1 == [self EXCEPT !.rng_state.status = s1.arr]
             x == Item2(value, "state", "idx")
             idx == IF x.exc # "" THEN x ELSE AsInt(x.v)
             self2 == [self1 EXCEPT !.rng_state.idx = idx.v]
             buffered_uniforms == Item(value, "buffered_uniforms")
             s3 == CopyItems(self.rng_state.buffered_uniforms, buffered_uniforms.v,
                             DSFMT_N64, FALSE)
             self3 == [self2 EXCEPT !.rng_state.buffered_uniforms = s3.arr]
             y == Item(value, "buffer_loc")
             buffer_loc == IF y.exc # "" THEN y ELSE AsInt(y.v)
         IN  IF state.exc # "" THEN [self |-> self, exc |-> state.exc]
             ELSE IF s1.exc # "" THEN [self |-> self1, exc |-> s1.exc]
             ELSE IF idx.exc # "" THEN [self |-> self1, exc |-> idx.exc]
             ELSE IF buffered_uniforms.exc # ""
             THEN [self |-> self2, exc |-> buffered_uniforms.exc]
             ELSE IF s3.exc # "" THEN [self |-> self3, exc |-> s3.exc]
             ELSE IF buffer_loc.exc # "" THEN [self |-> self3, exc |-> buffer_loc.exc]
             ELSE [self |-> [self3 EXCEPT !.rng_state.buffer_loc = buffer_loc.v],
                   exc |-> ""]

\* a faulty variant that jumps the freshly seeded object without copying the
\* state of self into it; JumpedFromSourceOnly distinguishes it from
\* DSFMT_jumped
DSFMT_jumped_from_entropy(self, jumps, e) ==
    DSFMT_jump_inplace(DSFMT_init(e), AsInt(jumps).v)

\* jumps is converted to npy_intp on entry; self.__class__() draws fresh
\* entropy e
DSFMT_jumped(self, jumps, e) ==
    LET bit_generator == DSFMT_state_set(DSFMT_init(e), DSFMT_state_get(self)).self
    IN  DSFMT_jump_inplace(bit_generator, AsInt(jumps).v)

----------------------------------------------------------------------------
(* The four classes behind one interface *)

Classes == {"PCG32", "GJrand", "JSF64", "DSFMT"}

\* cls(seed_seq) with the entropy source e
New(cls, e) ==
    CASE cls = "PCG32" -> PCG32_init(e)
      [] cls = "GJrand" -> GJrand_init(e)
      [] cls = "JSF64" -> JSF64_init(e)
      [] cls = "DSFMT" -> DSFMT_init(e)

\* self.state
StateGet(self) ==
    CASE self.cls = "PCG32" -> PCG32_state_get(self)
      [] self.cls = "GJrand" -> GJrand_state_get(self)
      [] self.cls = "JSF64" -> JSF64_state_get(self)
      [] self.cls = "DSFMT" -> DSFMT_state_get(self)

\* self.state = value
StateSet(self, value) ==
    CASE self.cls = "PCG32" -> PCG32_state_set(self, value)
      [] self.cls = "GJrand" -> GJrand_state_set(self, value)
      [] self.cls = "JSF64" -> JSF64_state_set(self, value)
      [] self.cls = "DSFMT" -> DSFMT_state_set(self, value)

\* self.jumped(jumps), the new object drawing entropy e
JumpedOf(self, jumps, e) ==
    CASE self.cls = "PCG32" -> PCG32_jumped(self, jumps, e)
      [] self.cls = "DSFMT" -> DSFMT_jumped(self, jumps, e)

\* a call through a bitgen_t slot: fn(st)
Call(fn, st, oob) ==
    CASE fn = "pcg32_uint64" -> pcg32_uint64(st)
      [] fn = "pcg32_uint32" -> pcg32_uint32(st)
      [] fn = "pcg32_double" -> pcg32_double(st)
      [] fn = "pcg32_raw" -> pcg32_raw(st)
      [] fn = "gjrand_uint64" -> gjrand_uint64(st)
      [] fn = "gjrand_uint32" -> gjrand_uint32(st)
      [] fn = "gjrand_double" -> gjrand_double(st)
      [] fn = "jsf64_uint64" -> jsf64_uint64(st)
      [] fn = "jsf64_uint32" -> jsf64_uint32(st)
      [] fn = "jsf64_double" -> jsf64_double(st)
      [] fn = "dsfmt_uint64" -> dsfmt_uint64(st, oob)
      [] fn = "dsfmt_uint32" -> dsfmt_uint32(st, oob)
      [] fn = "dsfmt_double" -> dsfmt_double(st, oob)
      [] fn = "dsfmt_raw" -> dsfmt_raw(st, oob)

----------------------------------------------------------------------------
(* Inputs *)

NumSeeds == 2          \* entropy sources 0 .. NumSeeds-1
MaxSteps == 2          \* operations per behaviour after construction
MaxDelta == 2          \* advance(delta) with delta in -MaxDelta .. MaxDelta
MaxJumps == 1          \* jumped(jumps) with jumps in -1 .. MaxJumps

Seeds == 0..(NumSeeds - 1)

\* The values handed to the state setter.  "own" is the object's own
\* self.state; every other one is built from the state dictionary of a donor
\* object of the same class, seeded from an entropy source no object under
\* test uses, so that each of its fields differs from the receiver's.
With(dict, k, v) ==
    PyDict([x \in (DOMAIN dict.d) \cup {k} |-> IF x = k THEN v ELSE dict.d[x]])
Without(dict, k) == PyDict([x \in (DOMAIN dict.d) \ {k} |-> dict.d[x]])
WithIn(dict, k, v) == With(dict, "state", With(dict.d["state"], k, v))
WithoutIn(dict, k) == With(dict, "state", Without(dict.d["state"], k))

Donors == [cls \in Classes |-> StateGet(New(cls, NumSeeds))]
Donor(cls) == Donors[cls]

CommonVariants ==
    {"own", "donor", "not_dict", "no_tag", "wrong_tag", "wrong_tag_only",
     "tag_only", "state_not_dict"}
PCG32Variants ==
    {"state_str", "no_inc", "inc_str", "inc_negative", "inc_even", "state_chosen"}
SplitVariants ==
    {"vec_scalar", "vec_len1", "vec_len3", "vec_len5", "no_has_uint32",
     "has_uint32_str", "has_uint32_two", "has_uint32_negative", "no_uinteger",
     "uinteger_too_big"}
DSFMTVariants ==
    {"status_short", "status_long", "status_bad_lane", "no_idx", "idx_too_big",
     "idx_negative", "cache_short", "cache_long", "no_cache", "no_buffer_loc",
     "buffer_loc_str", "buffer_loc_too_big", "buffer_loc_negative",
     "buffer_loc_last"}

Variants(cls) ==
    CommonVariants \cup
    CASE cls = "PCG32" -> PCG32Variants
      [] cls = "DSFMT" -> DSFMTVariants
      [] OTHER -> SplitVariants

Vec(dict) == dict.d["state"].d["state"]

Resize(arr, n) == PyArray(Tup([i \in 1..n |-> arr.data[((i - 1) % Len(arr.data)) + 1]]))

BlobFrom(self, d, variant) ==
        CASE variant = "own" -> StateGet(self)
          [] variant = "donor" -> d
          [] variant = "not_dict" -> PyStr("state")
          [] variant = "no_tag" -> Without(d, "bit_generator")
          [] variant = "wrong_tag" -> With(d, "bit_generator", PyStr("MT19937"))
          [] variant = "wrong_tag_only" -> PyDict([bit_generator |-> PyStr("MT19937")])
          [] variant = "tag_only" -> PyDict([bit_generator |-> PyStr(self.cls)])
          [] variant = "state_not_dict" -> With(d, "state", PyStr("state"))
          \* PCG32
          [] variant = "state_str" -> WithIn(d, "state", PyStr("0"))
          [] variant = "no_inc" -> WithoutIn(d, "inc")
          [] variant = "inc_str" -> WithIn(d, "inc", PyStr("1"))
          [] variant = "inc_negative" -> WithIn(d, "inc", PyInt(TRUE, One64))
          [] variant = "inc_even" ->
                WithIn(d, "inc", PyFromU64(Sub(d.d["state"].d["inc"].mag, One64)))
          [] variant = "state_chosen" ->
                WithIn(WithIn(d, "state", PyFromInt(1000324507)), "inc", PyFromInt(1))
          \* GJrand, JSF64
          [] variant = "vec_scalar" -> WithIn(d, "state", PyFromU64(Vec(d).data[1]))
          [] variant = "vec_len1" -> WithIn(d, "state", Resize(Vec(d), 1))
          [] variant = "vec_len3" -> WithIn(d, "state", Resize(Vec(d), 3))
          [] variant = "vec_len5" -> WithIn(d, "state", Resize(Vec(d), 5))
          [] variant = "no_has_uint32" -> Without(d, "has_uint32")
          [] variant = "has_uint32_str" -> With(d, "has_uint32", PyStr("1"))
          [] variant = "has_uint32_two" -> With(d, "has_uint32", PyFromInt(2))
          [] variant = "has_uint32_negative" -> With(d, "has_uint32", PyFromInt(-1))
          [] variant = "no_uinteger" -> Without(d, "uinteger")
          [] variant = "uinteger_too_big" ->
                With(d, "uinteger", PyInt(FALSE, <<0, 0, 0, 0, 1, 0, 0, 0>>))
          \* DSFMT
          [] variant = "status_short" -> WithIn(d, "state", Resize(Vec(d), Len(Vec(d).data) - 1))
          [] variant = "status_long" -> WithIn(d, "state", Resize(Vec(d), Len(Vec(d).data) + 1))
          [] variant = "status_bad_lane" ->
                WithIn(d, "state", PyArray([Vec(d).data EXCEPT ![200] = -1]))
          [] variant = "no_idx" -> WithoutIn(d, "idx")
          [] variant = "idx_too_big" -> WithIn(d, "idx", PyFromInt(1000))
          [] variant = "idx_negative" -> WithIn(d, "idx", PyFromInt(-1))
          [] variant = "cache_short" ->
                With(d, "buffered_uniforms", Resize(Vec(d), DSFMT_N64 - 1))
          [] variant = "cache_long" ->
                With(d, "buffered_uniforms", Resize(Vec(d), DSFMT_N64 + 1))
          [] variant = "no_cache" -> Without(d, "buffered_uniforms")
          [] variant = "no_buffer_loc" -> Without(d, "buffer_loc")
          [] variant = "buffer_loc_str" -> With(d, "buffer_loc", PyStr("0"))
          [] variant = "buffer_loc_too_big" ->
                With(d, "buffer_loc", PyFromInt(DSFMT_N64 + 1))
          [] variant = "buffer_loc_negative" -> With(d, "buffer_loc", PyFromInt(-1))
          [] variant = "buffer_loc_last" ->
                With(d, "buffer_loc", PyFromInt(DSFMT_N64 - 1))

Blob(self, variant) == BlobFrom(self, Donor(self.cls), variant)

\* what a read below the start of the cache may return
Oob(self) ==
    IF self.cls = "DSFMT" /\ self.rng_state.buffer_loc < 0 THEN {0, 1} ELSE {0}

----------------------------------------------------------------------------
(* The state machine.                                                      *)
(*   g        the bit generator under test                                 *)
(*   twin     a second object built from the same entropy and driven by    *)
(*            the same calls                                               *)
(*   pre      g as it was before the last call                             *)
(*   hist     the calls made so far, each with what it returned or raised  *)
(*   entropy  the entropy source g and twin were constructed from          *)
(*   parent   the object the last jumped() was called on, as the call left *)
(*            it                                                           *)

VARIABLES g, twin, pre, hist, entropy, parent

vars == <<g, twin, pre, hist, entropy, parent>>

\* no jumped() call has been made yet
NoParent == [cls |-> "none"]

Entry(name, variant, n, exc, val, tval) ==
    [name |-> name, variant |-> variant, n |-> n, exc |-> exc, val |-> val,
     tval |-> tval]

Init ==
    \E cls \in Classes, e \in Seeds :
        /\ g = New(cls, e)
        /\ twin = New(cls, e)
        /\ pre = g
        /\ hist = <<>>
        /\ entropy = e
        /\ parent = NoParent

\* a call through slot of the bitgen_t of each object
Draw(slot) ==
    /\ Len(hist) < MaxSteps
    /\ \E oob \in Oob(g), oobt \in Oob(twin) :
        LET Returns(r, rt) ==
                /\ g' = [g EXCEPT !.rng_state = r.st]
                /\ twin' = [twin EXCEPT !.rng_state = rt.st]
                /\ hist' = Append(hist, Entry(slot, "", 0, "", r.ret, rt.ret))
        IN  Returns(Call(g.bitgen[slot], g.rng_state, oob),
                    Call(twin.bitgen[slot], twin.rng_state, oobt))
    /\ pre' = g
    /\ UNCHANGED <<entropy, parent>>

NextUint64 == Draw("next_uint64")
NextUint32 == Draw("next_uint32")
NextDouble == Draw("next_double")
NextRaw == Draw("next_raw")

\* obj.state = value on each object
SetState ==
    /\ Len(hist) < MaxSteps
    /\ \E variant \in Variants(g.cls) :
        LET Returns(r, rt) ==
                /\ g' = r.self
                /\ twin' = rt.self
                /\ hist' = Append(hist, Entry("set_state", variant, 0, r.exc, <<>>, <<>>))
        IN  Returns(StateSet(g, Blob(g, variant)), StateSet(twin, Blob(twin, variant)))
    /\ pre' = g
    /\ UNCHANGED <<entropy, parent>>

\* obj.advance(delta), PCG32 only
Advance ==
    /\ Len(hist) < MaxSteps
    /\ g.cls = "PCG32"
    /\ \E delta \in (-MaxDelta)..MaxDelta :
        /\ g' = PCG32_advance(g, PyFromInt(delta))
        /\ twin' = PCG32_advance(twin, PyFromInt(delta))
        /\ hist' = Append(hist, Entry("advance", "", delta, "", <<>>, <<>>))
    /\ pre' = g
    /\ UNCHANGED <<entropy, parent>>

\* a faulty variant that jumps self in place and returns it;
\* JumpedLeavesOriginal distinguishes it from JumpedCall
JumpedCall_in_place(self, jumps, e) ==
    LET Both(j) == [self |-> j, ret |-> j] IN Both(JumpedOf(self, jumps, e))

\* self.jumped(jumps) as a call: the object it was called on as the call
\* leaves it, and the object it returns.  The method reads self.state and
\* writes only to the object it has created.
JumpedCall(self, jumps, e) ==
    [self |-> self, ret |-> JumpedOf(self, jumps, e)]

\* obj = obj.jumped(jumps), PCG32 and DSFMT: the lineage continues with the
\* returned object; each new object draws its own fresh entropy
Jumped ==
    /\ Len(hist) < MaxSteps
    /\ g.cls \in {"PCG32", "DSFMT"}
    /\ \E jumps \in -1..MaxJumps :
        /\ \E e \in Seeds :
              LET Returns(r) == g' = r.ret /\ parent' = r.self
              IN  Returns(JumpedCall(g, PyFromInt(jumps), e))
        /\ \E e \in Seeds : twin' = JumpedOf(twin, PyFromInt(jumps), e)
        /\ hist' = Append(hist, Entry("jumped", "", jumps, "", <<>>, <<>>))
    /\ pre' = g
    /\ UNCHANGED entropy

Next ==
    \/ NextUint64
    \/ NextUint32
    \/ NextDouble
    \/ NextRaw
    \/ SetState
    \/ Advance
    \/ Jumped

Spec == Init /\ [][Next]_vars

----------------------------------------------------------------------------
(* Properties *)

Draws == {"next_uint64", "next_uint32", "next_double", "next_raw"}

Last == hist[Len(hist)]

\* the last call was obj.state = value
Restored == Len(hist) > 0 /\ Last.name = "set_state"

\* the value handed to the setter by the last call
LastBlob == Blob(pre, Last.variant)

\* C1: obj.state = obj.state raises nothing and leaves every field of the
\* object as it was, whatever state the object is in (a cached half-word, a
\* partly consumed buffer); later draws therefore return what they would have
\* returned without the round trip.
RoundTripIdentity ==
    (Restored /\ Last.variant = "own") => (Last.exc = "" /\ g = pre)

\* a round trip on a GJrand that holds a cached half-word
RoundTripWithCache ==
    /\ Restored
    /\ Last.variant = "own"
    /\ g.cls = "GJrand"
    /\ hist[1].name = "next_uint32"
    /\ g.rng_state.has_uint32 = 1

\* C2: two objects built from the same entropy and driven by the same draws,
\* advance and jumped calls return the same value at every step and are in
\* the same state after every step.
Determinism ==
    (\A i \in 1..Len(hist) : hist[i].name # "set_state")
        => /\ twin = g
           /\ \A i \in 1..Len(hist) : hist[i].tval = hist[i].val

\* both objects were replaced by their jumped(1) copies and then drew
DrawAfterJumped ==
    /\ Len(hist) = 2
    /\ hist[1].name = "jumped"
    /\ hist[1].n = 1
    /\ hist[2].name = "next_uint64"
    /\ g.cls = "DSFMT"

\* what next_uint64 returns on a fresh object of the class of g built from
\* the same entropy
CloneUint64 ==
    LET clone == New(g.cls, entropy)
    IN  Call(clone.bitgen["next_uint64"], clone.rng_state, 0).ret

\* the first two calls of a fresh GJrand or JSF64 were next_uint32
TwoUint32FromFresh ==
    /\ g.cls \in {"GJrand", "JSF64"}
    /\ Len(hist) = 2
    /\ hist[1].name = "next_uint32"
    /\ hist[2].name = "next_uint32"

\* C3 (as written): from a fresh GJrand or JSF64, two next_uint32 calls return
\* the high and then the low 32 bits of what next_uint64 returns from that
\* state.
SplitHighThenLow ==
    TwoUint32FromFresh
        => /\ hist[1].val = Hi32(CloneUint64)
           /\ hist[2].val = Lo32(CloneUint64)

\* C3 (amended): from a fresh GJrand or JSF64, two next_uint32 calls return
\* the low and then the high 32 bits of what next_uint64 returns from that
\* state.
SplitLowThenHigh ==
    TwoUint32FromFresh
        => /\ hist[1].val = Lo32(CloneUint64)
           /\ hist[2].val = Hi32(CloneUint64)

\* two next_uint32 calls on a fresh JSF64 whose halves differ
TwoHalvesDrawn ==
    /\ TwoUint32FromFresh
    /\ g.cls = "JSF64"
    /\ hist[1].val # hist[2].val

\* C4: has_uint32 of a GJrand or JSF64 is 0 or 1 in every state reached by
\* draws and by setter calls with any value the setter accepts.
CacheFlagIsBit ==
    g.cls \in {"GJrand", "JSF64"} => g.rng_state.has_uint32 \in {0, 1}

\* C5: the increment of a PCG32 is odd whenever a draw or an advance steps the
\* generator, also after setter calls with any value the setter accepts.
IncrementOddAtStep ==
    (g.cls = "PCG32" /\ Len(hist) > 0 /\ Last.name \in Draws \cup {"advance"})
        => pre.rng_state.inc[1] % 2 = 1

\* C6: a setter call that raises leaves every field of the object as it was.
FailedRestoreAtomic ==
    (Restored /\ Last.exc # "") => g = pre

\* C7: the setter raises TypeError for a value that is no dict and ValueError
\* for a dict whose 'bit_generator' entry is absent or is not the class name,
\* and in both cases has written no field, whatever else the value holds.
TagCheckedFirst ==
    Restored =>
        /\ LastBlob.ty # "dict" => (Last.exc = "TypeError" /\ g = pre)
        /\ (/\ LastBlob.ty = "dict"
            /\ \/ "bit_generator" \notin DOMAIN LastBlob.d
               \/ LastBlob.d["bit_generator"] # PyStr(pre.cls))
           => (Last.exc = "ValueError" /\ g = pre)

\* a complete state dictionary of another object under a foreign tag was
\* refused by a DSFMT
ForeignTagRefused ==
    /\ Restored
    /\ Last.variant = "wrong_tag"
    /\ Last.exc = "ValueError"
    /\ g.cls = "DSFMT"

\* the number of words of a value offered as the core word array
WordCount(x) ==
    IF x.ty = "ndarray" THEN Len(x.data) ELSE IF x.ty = "int" THEN 1 ELSE 0

\* C8: the setter raises for every dictionary whose core word array does not
\* hold exactly 4 words (GJrand, JSF64) or 2 * (DSFMT_N + 1) = 384 words
\* (DSFMT).
WordCountChecked ==
    (/\ Restored
     /\ g.cls \in {"GJrand", "JSF64", "DSFMT"}
     /\ Item2(LastBlob, "state", "state").exc = ""
     /\ WordCount(Item2(LastBlob, "state", "state").v)
            # (IF g.cls = "DSFMT" THEN 2 * DSFMT_N_PLUS_1 ELSE 4))
        => Last.exc # ""

\* C9: the DSFMT setter raises for a dictionary whose buffered_uniforms does
\* not hold exactly DSFMT_N64 = 382 values or whose idx lies outside
\* 0 .. DSFMT_N64.
CacheAndIndexChecked ==
    (/\ Restored
     /\ g.cls = "DSFMT"
     /\ \/ /\ Item(LastBlob, "buffered_uniforms").exc = ""
           /\ WordCount(Item(LastBlob, "buffered_uniforms").v) # DSFMT_N64
        \/ /\ Item2(LastBlob, "state", "idx").exc = ""
           /\ AsInt(Item2(LastBlob, "state", "idx").v).exc = ""
           /\ AsInt(Item2(LastBlob, "state", "idx").v).v \notin 0..DSFMT_N64)
        => Last.exc # ""

\* C10: 0 <= buffer_loc <= DSFMT_N64 = 382 in every state of a DSFMT, and
\* buffer_loc = DSFMT_N64 right after construction.
CursorInRange ==
    g.cls = "DSFMT"
        => /\ 0 <= g.rng_state.buffer_loc
           /\ g.rng_state.buffer_loc <= DSFMT_N64
           /\ hist = <<>> => g.rng_state.buffer_loc = DSFMT_N64

RECURSIVE StepTimes(_, _)
StepTimes(r, n) ==
    IF r.i >= n THEN r.rng ELSE StepTimes([rng |-> pcg_step(r.rng), i |-> r.i + 1], n)

\* C12: advance(delta) of a PCG32 leaves inc as it was and state where delta
\* single LCG steps would leave it; for a negative delta, which stands for
\* delta + 2^64 steps, -delta further single steps lead back to where the
\* call started.
AdvanceIsIteratedStep ==
    (Len(hist) > 0 /\ Last.name = "advance")
        => IF Last.n >= 0
           THEN g.rng_state = StepTimes([rng |-> pre.rng_state, i |-> 0], Last.n)
           ELSE StepTimes([rng |-> g.rng_state, i |-> 0], -Last.n) = pre.rng_state

\* advance(-1) after one draw of a PCG32
AdvancedBackOverDraw ==
    /\ Len(hist) = 2
    /\ hist[1].name = "next_uint32"
    /\ hist[2].name = "advance"
    /\ hist[2].n = -1
    /\ g.rng_state # pre.rng_state

\* C13: advance(k) followed by advance(-k) leaves a PCG32 as it was before
\* both: from a fresh object after the two calls, and from any state as the
\* effect advance(-k) has on the object advance(k) has just left.
AdvanceUndone ==
    /\ (/\ Len(hist) = 2
        /\ hist[1].name = "advance"
        /\ hist[2].name = "advance"
        /\ hist[1].n + hist[2].n = 0)
       => g = New("PCG32", entropy)
    /\ (Len(hist) > 0 /\ Last.name = "advance")
       => PCG32_advance(g, PyFromInt(-Last.n)) = pre

\* advance(2) and then advance(-2) on a fresh PCG32
AdvancedThereAndBack ==
    /\ Len(hist) = 2
    /\ hist[1].name = "advance"
    /\ hist[1].n = 2
    /\ hist[2].name = "advance"
    /\ hist[2].n = -2
    /\ pre # g

\* (0x9e3779b97f4a7c16 * j) mod 2^64
JumpDelta(j) ==
    IF j >= 0 THEN Mul64(W64(40503, 31161, 32586, 31766), NatBytes(j, 8))
    ELSE Sub(Zero64, Mul64(W64(40503, 31161, 32586, 31766), NatBytes(-j, 8)))

\* C14: jumped(j) of a PCG32 returns an object whose state and inc are those
\* of the original after advance((0x9e3779b97f4a7c16 * j) mod 2^64).
JumpIsFixedStepAdvance ==
    (Len(hist) > 0 /\ Last.name = "jumped" /\ g.cls = "PCG32")
        => g = PCG32_advance(pre, PyFromU64(JumpDelta(Last.n)))

\* jumped(-1) of a PCG32 that has drawn
JumpedBackAfterDraw ==
    /\ Len(hist) = 2
    /\ g.cls = "PCG32"
    /\ hist[1].name = "next_uint64"
    /\ hist[2].name = "jumped"
    /\ hist[2].n = -1
    /\ g # pre

\* what the next call through slot returns on obj
NextOutput(obj, slot) == Call(obj.bitgen[slot], obj.rng_state, 0).ret

\* C15: the first value drawn from the object returned by jumped(jumps),
\* jumps >= 1, differs from the first value drawn from the original, for
\* every state of the original (offset 0 of the non-overlap of the two
\* output sequences).
JumpedOutputDiffers ==
    (Len(hist) > 0 /\ Last.name = "jumped" /\ Last.n >= 1)
        => \A slot \in Draws : NextOutput(g, slot) # NextOutput(parent, slot)

\* obj with every cached double overwritten by 0
CacheWiped(obj) ==
    [obj EXCEPT !.rng_state.buffered_uniforms = Tup([i \in 1..DSFMT_N64 |-> 0])]

\* C16: the object returned by DSFMT.jumped(jumps) has buffer_loc = DSFMT_N64
\* = 382 for every jumps, also jumps <= 0; its next draw, whichever it is,
\* therefore returns what it would return with the cache wiped, and leaves
\* the state it would leave then: no double cached before the jump is used.
JumpedClearsCache ==
    (Len(hist) > 0 /\ Last.name = "jumped" /\ g.cls = "DSFMT")
        => /\ g.rng_state.buffer_loc = DSFMT_N64
           /\ \A slot \in Draws :
                Call(g.bitgen[slot], g.rng_state, 0)
                    = Call(g.bitgen[slot], CacheWiped(g).rng_state, 0)

\* jumped(0) of a DSFMT that has drawn a double and holds a filled cache
JumpedWithFilledCache ==
    /\ Len(hist) = 2
    /\ g.cls = "DSFMT"
    /\ hist[1].name = "next_double"
    /\ hist[2].name = "jumped"
    /\ hist[2].n = 0
    /\ pre.rng_state.buffer_loc = 1
    /\ g.rng_state.buffered_uniforms # CacheWiped(g).rng_state.buffered_uniforms

\* a draw that takes one cached double
OneSlotDraws == {"next_double", "next_uint32", "next_raw"}

\* the DSFMT state a refill of the cache produces from st, cursor at 0
Refilled(st) ==
    [st EXCEPT !.status = dsfmt_recur(st.status),
               !.buffered_uniforms = SubSeq(dsfmt_recur(st.status), 1, DSFMT_N64),
               !.buffer_loc = 0]

\* the state a one-slot draw leaves st in must be after
OneSlotDrawLeaves(st, after) ==
    IF st.buffer_loc = DSFMT_N64
    THEN after = [Refilled(st) EXCEPT !.buffer_loc = 1]
    ELSE after = [st EXCEPT !.buffer_loc = st.buffer_loc + 1]

\* the cached double a one-slot draw on st takes must be the one ret carries
OneSlotDrawReturns(st, ret) ==
    Low(ret, 2) = NatBytes(IF st.buffer_loc = DSFMT_N64
                           THEN Refilled(st).buffered_uniforms[1]
                           ELSE st.buffered_uniforms[st.buffer_loc + 1], 2)

NegativeDeltaRejected ==
    (/\ g.cls = "PCG32"
     /\ Len(hist) > 0
     /\ Last.name \in {"advance", "jumped"}
     /\ Last.n < 0)
        => (Last.exc # "" /\ g = pre)

\* one 64-bit transition of the engine of class cls on the words s
Transition(cls, s) == IF cls = "GJrand" THEN gjrand_next(s) ELSE jsf64_next(s)

\* n transitions, on r = [s, i]
RECURSIVE TransitionTimes(_, _, _)
TransitionTimes(cls, r, n) ==
    IF r.i >= n THEN r.s
    ELSE TransitionTimes(cls, [s |-> Transition(cls, r.s).s, i |-> r.i + 1], n)

\* C19: a next_uint32 call on a GJrand or JSF64 whose flag is set returns
\* uinteger, clears the flag and changes nothing else; with the flag clear it
\* makes one transition, sets the flag, keeps the high 32 bits of the new
\* value in uinteger and returns the low 32 bits.  n such calls on a fresh
\* object make ceil(n/2) transitions.  The same holds for both engines.
SplitterStep ==
    (g.cls \in {"GJrand", "JSF64"} /\ Len(hist) > 0) =>
        /\ Last.name = "next_uint32" =>
            IF pre.rng_state.has_uint32 # 0
            THEN /\ Last.val = pre.rng_state.uinteger
                 /\ g.rng_state = [pre.rng_state EXCEPT !.has_uint32 = 0]
            ELSE /\ Last.val = Lo32(Transition(g.cls, pre.rng_state.s).ret)
                 /\ g.rng_state =
                        [s |-> Transition(g.cls, pre.rng_state.s).s,
                         has_uint32 |-> 1,
                         uinteger |-> Hi32(Transition(g.cls, pre.rng_state.s).ret)]
        /\ (\A i \in 1..Len(hist) : hist[i].name = "next_uint32") =>
            g.rng_state.s = TransitionTimes(g.cls,
                                            [s |-> New(g.cls, entropy).rng_state.s,
                                             i |-> 0],
                                            (Len(hist) + 1) \div 2)

\* the second of two next_uint32 calls on a fresh GJrand was served from the
\* cache
SecondHalfServed ==
    /\ Len(hist) = 2
    /\ g.cls = "GJrand"
    /\ hist[1].name = "next_uint32"
    /\ hist[2].name = "next_uint32"
    /\ pre.rng_state.has_uint32 = 1
    /\ g.rng_state.has_uint32 = 0
    /\ g.rng_state.s = pre.rng_state.s

\* the words the seeding of class cls starts its warm-up from
SeedWords(cls, e) ==
    IF cls = "GJrand"
    THEN <<generate_state(e, 2)[1], generate_state(e, 2)[2], W64(0, 0, 30, 33921),
           Zero64>>
    ELSE <<W64(0, 0, 61930, 24301), generate_state(e, 3)[1], generate_state(e, 3)[2],
           generate_state(e, 3)[3]>>

WarmUps(cls) == IF cls = "GJrand" THEN 14 ELSE 20

\* C20: a fresh GJrand holds 14 transitions of (e0, e1, 2000001, 0), a fresh
\* JSF64 20 transitions of (0xf1ea5eed, e0, e1, e2), both with has_uint32 = 0
\* and uinteger = 0; the first 64-bit value drawn is the output of transition
\* 15 (s[0] of GJrand) or 21 (s[3] of JSF64).
SeedingWarmUp ==
    g.cls \in {"GJrand", "JSF64"} =>
        /\ hist = <<>> =>
            g.rng_state =
                [s |-> TransitionTimes(g.cls, [s |-> SeedWords(g.cls, entropy), i |-> 0],
                                       WarmUps(g.cls)),
                 has_uint32 |-> 0,
                 uinteger |-> Zero32]
        /\ (Len(hist) = 1 /\ Last.name = "next_uint64") =>
            /\ g.rng_state.s =
                    TransitionTimes(g.cls, [s |-> SeedWords(g.cls, entropy), i |-> 0],
                                    WarmUps(g.cls) + 1)
            /\ Last.val = g.rng_state.s[IF g.cls = "GJrand" THEN 1 ELSE 4]

\* the first 64-bit value has been drawn from a fresh GJrand
FirstValueDrawn ==
    /\ Len(hist) = 1
    /\ g.cls = "GJrand"
    /\ Last.name = "next_uint64"
    /\ Last.val = g.rng_state.s[1]
    /\ g.rng_state.has_uint32 = 0

\* the state a call through slot leaves obj in
NextState(obj, slot) == Call(obj.bitgen[slot], obj.rng_state, 0).st

\* C21: on a PCG32, next_uint32 moves the LCG by one step and next_uint64 by
\* two, so next_uint64 leaves the state two next_uint32 calls leave and the
\* state advance(2) leaves; no draw changes inc.
DrawWidths ==
    (g.cls = "PCG32" /\ Len(hist) > 0 /\ Last.name \in Draws) =>
        /\ g.rng_state.inc = pre.rng_state.inc
        /\ Last.name = "next_uint32" =>
            g.rng_state = StepTimes([rng |-> pre.rng_state, i |-> 0], 1)
        /\ Last.name = "next_uint64" =>
            /\ g.rng_state = StepTimes([rng |-> pre.rng_state, i |-> 0], 2)
            /\ g.rng_state =
                   NextState([pre EXCEPT !.rng_state = NextState(pre, "next_uint32")],
                             "next_uint32")
            /\ g = PCG32_advance(pre, PyFromInt(2))

\* a 64-bit draw from a PCG32 that has already drawn 32 bits
WideDrawAfterNarrow ==
    /\ Len(hist) = 2
    /\ g.cls = "PCG32"
    /\ hist[1].name = "next_uint32"
    /\ hist[2].name = "next_uint64"
    /\ g.rng_state.state # pre.rng_state.state

\* C22: the four slots of an object are those its constructor bound, whatever
\* calls have been made since.  On a GJrand or JSF64, next_raw returns what
\* next_uint64 returns and changes the state as it does: the output of one
\* 64-bit transition; next_double makes exactly one 64-bit transition.  On a
\* PCG32, next_raw returns the next 32-bit output zero-extended and moves the
\* LCG by one step.
SlotsForwarded ==
    /\ g.bitgen = New(g.cls, entropy).bitgen
    /\ (g.cls \in {"GJrand", "JSF64"} /\ Len(hist) > 0) =>
        /\ Last.name \in {"next_raw", "next_uint64"} =>
            /\ Last.val = Transition(g.cls, pre.rng_state.s).ret
            /\ g.rng_state =
                   [pre.rng_state EXCEPT !.s = Transition(g.cls, pre.rng_state.s).s]
        /\ Last.name = "next_double" =>
            g.rng_state.s = Transition(g.cls, pre.rng_state.s).s
    /\ (g.cls = "PCG32" /\ Len(hist) > 0 /\ Last.name = "next_raw") =>
        /\ Last.val = pcg_output(pre.rng_state.state) \o Zero32
        /\ Hi32(Last.val) = Zero32
        /\ g.rng_state = pcg_step(pre.rng_state)

\* next_raw through the slots of a PCG32 that jumped() returned
RawAfterJumped ==
    /\ Len(hist) = 2
    /\ g.cls = "PCG32"
    /\ hist[1].name = "jumped"
    /\ hist[2].name = "next_raw"
    /\ Lo32(Last.val) # Zero32

\* the statements of gjrand_next undone in reverse order
gjrand_prev(t) ==
    LET s3a == t[4]
        s1c == Sub(t[2], s3a)
        s2b == Sub(t[3], t[1])
        s1b == rotl(s1c, 64 - 19)
        s0b == Sub(t[1], s2b)
        s1a == Xor(s1b, s0b)
        s2a == rotl(s2b, 64 - 23)
        s0a == Sub(s0b, s1a)
        s2 == Xor(s2a, s1a)
    IN  <<rotl(s0a, 32), Sub(s1a, s2), s2, Sub(s3a, GJ_INC)>>

\* the statements of jsf64_next undone in reverse order
jsf64_prev(t) ==
    LET e == Sub(t[4], t[1])
        s3 == Sub(t[3], e)
        s2 == Sub(t[2], rotl(s3, 37))
        s1 == Xor(t[1], rotl(s2, 13))
    IN  <<Add(e, rotl(s1, 7)), s1, s2, s3>>

Predecessor(cls, t) == IF cls = "GJrand" THEN gjrand_prev(t) ELSE jsf64_prev(t)

\* the words of the freshly seeded objects
SeededWords ==
    [cls \in {"GJrand", "JSF64"} |-> [e \in 0..NumSeeds |-> New(cls, e).rng_state.s]]

\* the 4-word states at hand in the current state of the model
KnownWords ==
    {g.rng_state.s, pre.rng_state.s} \cup {SeededWords[g.cls][e] : e \in 0..NumSeeds}

\* C23: the transition of GJrand and that of JSF64 are one-to-one and onto:
\* every 4-word state is the successor of exactly one state, the one the
\* reversed statements compute, and distinct states have distinct successors.
TransitionInvertible ==
    g.cls \in {"GJrand", "JSF64"} =>
        /\ \A s \in KnownWords :
            /\ Predecessor(g.cls, Transition(g.cls, s).s) = s
            /\ Transition(g.cls, Predecessor(g.cls, s)).s = s
        /\ \A a, b \in KnownWords :
            a # b => Transition(g.cls, a).s # Transition(g.cls, b).s

\* two draws of a JSF64 have left three distinct states at hand
ThreeStatesApart ==
    /\ Len(hist) = 2
    /\ g.cls = "JSF64"
    /\ hist[1].name = "next_uint64"
    /\ hist[2].name = "next_double"
    /\ Predecessor(g.cls, g.rng_state.s) = pre.rng_state.s
    /\ Cardinality(KnownWords) >= 3

\* C24: on a GJrand or JSF64, next_uint64, next_double and next_raw leave
\* has_uint32 and uinteger as they were.  A next_uint32 call that follows a
\* 64-bit draw made with the flag set therefore makes no transition and
\* returns the half cached before that draw: after next_uint32, next_uint64 on
\* a fresh object it returns the high half of the first value drawn.
WideDrawsKeepCache ==
    (/\ g.cls \in {"GJrand", "JSF64"}
     /\ Len(hist) > 0
     /\ Last.name \in {"next_uint64", "next_double", "next_raw"}) =>
        /\ g.rng_state.has_uint32 = pre.rng_state.has_uint32
        /\ g.rng_state.uinteger = pre.rng_state.uinteger
        /\ pre.rng_state.has_uint32 # 0 =>
            /\ NextOutput(g, "next_uint32") = pre.rng_state.uinteger
            /\ NextState(g, "next_uint32").s = g.rng_state.s
        /\ (Len(hist) = 2 /\ hist[1].name = "next_uint32") =>
            NextOutput(g, "next_uint32") =
                Hi32(Transition(g.cls, SeededWords[g.cls][entropy]).ret)

\* a 64-bit draw made while a JSF64 holds a cached half
WideDrawOverCache ==
    /\ Len(hist) = 2
    /\ g.cls = "JSF64"
    /\ hist[1].name = "next_uint32"
    /\ hist[2].name = "next_uint64"
    /\ g.rng_state.has_uint32 = 1
    /\ NextOutput(g, "next_uint32") # Hi32(hist[2].val)
    /\ NextOutput(g, "next_uint32") # Lo32(hist[2].val)

\* the 64-bit transitions the calls of hist make on an object that starts
\* with an empty cache and is never restored: one per 64-bit draw, and one per
\* two next_uint32 calls, the first of each pair
TransitionsMade ==
    Cardinality({i \in 1..Len(hist) :
                    hist[i].name \in {"next_uint64", "next_double", "next_raw"}})
    + (Cardinality({i \in 1..Len(hist) : hist[i].name = "next_uint32"}) + 1) \div 2

\* C25: s[3] of a GJrand moves by 0x55aa96a5 in every 64-bit transition,
\* whatever s[0..2] hold, and stays as it is in a next_uint32 call served from
\* the cache; on an object never restored it is ((14 + n) * 0x55aa96a5) mod
\* 2^64 after n transitions.
CounterWord ==
    (g.cls = "GJrand" /\ Len(hist) > 0) =>
        /\ Last.name \in Draws =>
            g.rng_state.s[4] =
                IF Last.name = "next_uint32" /\ pre.rng_state.has_uint32 # 0
                THEN pre.rng_state.s[4]
                ELSE Add(pre.rng_state.s[4], W64(0, 0, 21930, 38565))
        /\ (\A i \in 1..Len(hist) : hist[i].name \in Draws) =>
            g.rng_state.s[4] =
                Mul64(NatBytes(14 + TransitionsMade, 8), W64(0, 0, 21930, 38565))

\* a GJrand after two transitions and a cached half pending
SixteenIncrements ==
    /\ Len(hist) = 2
    /\ g.cls = "GJrand"
    /\ hist[1].name = "next_double"
    /\ hist[2].name = "next_uint32"
    /\ g.rng_state.has_uint32 = 1
    /\ g.rng_state.s[4] = Mul64(NatBytes(16, 8), W64(0, 0, 21930, 38565))

\* n mod 2^64 as a 64-bit word
Word(n) == IF n >= 0 THEN NatBytes(n, 8) ELSE Sub(Zero64, NatBytes(-n, 8))

\* the deltas tried for the second of two advance calls: small ones of either
\* sign and the largest 64-bit one
SecondDeltas == {Word(b) : b \in (-MaxDelta)..MaxDelta} \cup {Not(Zero64)}

\* C26: on a PCG32, advance(a) followed by advance(b) leaves the state and inc
\* that advance((a + b) mod 2^64) leaves, from every state; advance(0) changes
\* nothing; and jumped(i).jumped(j) has the state of jumped(i + j).
AdvanceAdditive ==
    /\ (Len(hist) > 0 /\ Last.name = "advance") =>
        /\ \A b \in SecondDeltas :
            PCG32_advance(g, PyFromU64(b)) =
                PCG32_advance(pre, PyFromU64(Add(Word(Last.n), b)))
        /\ Last.n = 0 => g = pre
    /\ (/\ Len(hist) = 2
        /\ hist[1].name = "advance"
        /\ hist[2].name = "advance") =>
        g = PCG32_advance(New("PCG32", entropy),
                          PyFromU64(Word(hist[1].n + hist[2].n)))
    /\ (Len(hist) > 0 /\ Last.name = "jumped" /\ g.cls = "PCG32") =>
        \A j \in -1..MaxJumps :
            JumpedOf(g, PyFromInt(j), entropy).rng_state =
                JumpedOf(pre, PyFromInt(Last.n + j), entropy).rng_state
    /\ (/\ Len(hist) = 2
        /\ g.cls = "PCG32"
        /\ hist[1].name = "jumped"
        /\ hist[2].name = "jumped") =>
        g.rng_state = JumpedOf(New("PCG32", entropy),
                               PyFromInt(hist[1].n + hist[2].n), entropy).rng_state

\* advance(1) and then advance(-2): the sum wraps below zero
AdvancedPastZero ==
    /\ Len(hist) = 2
    /\ hist[1].name = "advance"
    /\ hist[1].n = 1
    /\ hist[2].name = "advance"
    /\ hist[2].n = -2
    /\ g.rng_state # New("PCG32", entropy).rng_state

\* C27: the object jumped(n) returns is determined by the object it is called
\* on: whatever entropy the new object was constructed from, it has the same
\* fields, and so returns the same values, as the one the call has returned.
JumpedFromSourceOnly ==
    (Len(hist) > 0 /\ Last.name = "jumped") =>
        \A e \in Seeds :
            LET Same(other) ==
                    /\ other = g
                    /\ \A slot \in Draws : NextOutput(other, slot) = NextOutput(g, slot)
            IN  Same(JumpedOf(parent, PyFromInt(Last.n), e))

\* jumped(1) of a DSFMT that has drawn, with objects constructed from
\* different entropy differing before the state is copied
JumpedFromDrawnSource ==
    /\ Len(hist) = 2
    /\ g.cls = "DSFMT"
    /\ hist[1].name = "next_uint32"
    /\ hist[2].name = "jumped"
    /\ hist[2].n = 1
    /\ parent = pre
    /\ g.rng_state.status # pre.rng_state.status
    /\ \E e \in Seeds : New("DSFMT", e).rng_state.status # New("DSFMT", entropy).rng_state.status

=============================================================================
